---- MODULE Spec2Model ----
(***************************************************************************)
(* Model of the mesh-adaptation driver                                     *)
(* (uFE/implicit_domain_volumetric_mesh_generator.py), the parameter       *)
(* optimizer (uFE/optimize_mesh_adaptation.py), the subdomain extractor,   *)
(* the mesh comparison and the app's meshing, boundary-condition and       *)
(* output pages of MSMFE.  Each behaviour runs one of these programs,      *)
(* chosen by the variable entry.                                           *)
(*                                                                         *)
(* File names are sequences of tokens.  A token is an indivisible run of   *)
(* characters; the tokens are chosen so that no occurrence of a pattern    *)
(* the code searches for ("initial", "_iteration_<n>", ".mesh") straddles  *)
(* two tokens.  Numbers with a fractional part (the adaptation parameters) *)
(* are integers in hundredths.                                             *)
(***************************************************************************)
EXTENDS Integers, Sequences, FiniteSets, TLC

\* ------------------------------------------------------------------ bounds
\* Largest refine_iterations a caller passes.
MaxRefine == 3
\* Largest number of lines a trial log holds before a run.
MaxOldLog == 1
\* Largest number of elements of a mesh a subdomain is extracted from.
MaxElems == 2
\* Largest number of vertices of a mesh a directive is written for.
MaxVerts == 2
\* Largest number of vertices of a mesh that is compared with a surface.
MaxPoints == 2
\* Largest number of calls of compare_meshes on one pair of files.
MaxCalls == 2
\* Largest number of lines of a mesh file that is trimmed.
MaxLines == 4
\* Largest number of calls of trim_unknown_keyword on one file.
MaxTrims == 2
\* Largest number of runs of generate_volumetric_mesh in one session.
MaxRuns == 2

\* --------------------------------------------------------------- constants
\* uFE/utils/default_parameters.py, in hundredths.
DEFAULT_HAUSD == 1
DEFAULT_HGRAD == 130
DEFAULT_HMIN == 100
DEFAULT_HMAX == 10000
DEFAULT_MEMORY_MAX == 16000

None == "None"

\* ------------------------------------------------------------ string tools
ExtTokens == {".mesh", ".sol", ".vtu", ".ply", ".vtp", ".npy"}

\* str(n) for a natural number, one token per digit.
RECURSIVE Digits(_)
Digits(n) ==
  IF n < 10 THEN << ToString(n) >>
  ELSE Digits(n \div 10) \o << ToString(n % 10) >>

\* s[i..i+Len(old)-1] = old
MatchAt(s, old, i) ==
  /\ i + Len(old) - 1 <= Len(s)
  /\ \A j \in 1..Len(old) : s[i + j - 1] = old[j]

\* Python's str.replace(old, new): every non-overlapping occurrence, scanned
\* from the left.
RECURSIVE ReplaceFrom(_, _, _, _)
ReplaceFrom(s, old, new, i) ==
  IF i > Len(s) THEN << >>
  ELSE IF MatchAt(s, old, i)
       THEN new \o ReplaceFrom(s, old, new, i + Len(old))
       ELSE << s[i] >> \o ReplaceFrom(s, old, new, i + 1)

Replace(s, old, new) == ReplaceFrom(s, old, new, 1)

\* Index of the last extension token of s that is not its first token
\* (os.path.splitext ignores a leading dot), 0 when there is none.
LastDot(s) ==
  LET dots == {i \in 2..Len(s) : s[i] \in ExtTokens}
  IN IF dots = {} THEN 0 ELSE CHOOSE i \in dots : \A j \in dots : j <= i

\* os.path.splitext(s)[0]
SplitextRoot(s) ==
  IF LastDot(s) = 0 THEN s ELSE SubSeq(s, 1, LastDot(s) - 1)

IterationMarker(n) == << "_iteration_" >> \o Digits(n)

\* ---------------------------------------------- output and input file names
handle_args_none_output_file(input_file, output_file) ==
  IF output_file = None
  THEN Replace(input_file, << "initial" >>, << "adapted" >>)
  ELSE output_file

\* handle_iterative without the marker substitution of line 153.
handle_iterative_no_substitution(input_file, output_file, it) ==
  IF it = 0 THEN << input_file, output_file >>
  ELSE IF it = 1
       THEN << input_file,
               SplitextRoot(output_file) \o IterationMarker(it) \o << ".mesh" >> >>
       ELSE << output_file, output_file >>

\* The pair (input_file, output_file) handle_iterative returns.
handle_iterative(input_file, output_file, it) ==
  IF it = 0 THEN << input_file, output_file >>
  ELSE IF it = 1
       THEN << input_file,
               SplitextRoot(output_file) \o IterationMarker(it) \o << ".mesh" >> >>
       ELSE << output_file,
               Replace(output_file, IterationMarker(it - 1), IterationMarker(it)) >>

\* generate_sol_file: the directive path that goes with a mesh path.
SolPath(input_file) == SplitextRoot(input_file) \o << ".sol" >>


\* ------------------------------------------------------------------ inputs
SurfName == << "surf", ".ply" >>

\* Mesh paths a caller passes as input_file.
InputNames ==
  { << "x", "initial", ".mesh" >>,
    << "x", ".mesh" >>,
    << "initial", "_iteration_", "1", ".mesh" >> }

\* Values a caller passes as output_file.
OutputNames ==
  { None,
    << "y", ".mesh" >>,
    << "y" >>,
    << "y", "_iteration_", "1", ".mesh" >>,
    << "y", "_iteration_", "2", "_iteration_", "1", "0", ".mesh" >>,
    << "x", "initial", ".mesh" >> }

\* Point-data arrays a mesh file can carry besides the computed distance.
Metrics == {"implicit_distance", "density"}

\* Edge sizes in hundredths; the pairs include hmin > hmax.
Sizes == {DEFAULT_HMIN, DEFAULT_HMAX}

NoArgs ==
  [input_file |-> None, surf_file |-> None, output_file |-> None,
   metric |-> None, hausd |-> 0, hgrad |-> 0, hmin |-> 0, hmax |-> 0,
   memory_max |-> 0, refine_iterations |-> 0]

\* The calls of generate_implicit_domain_volumetric_mesh made from its
\* command line.
CliArgs ==
  [input_file : InputNames, surf_file : {None, SurfName},
   output_file : OutputNames, metric : Metrics,
   hausd : {DEFAULT_HAUSD}, hgrad : {DEFAULT_HGRAD},
   hmin : Sizes, hmax : Sizes,
   memory_max : {DEFAULT_MEMORY_MAX}, refine_iterations : 0..MaxRefine]

\* The (input_file, output_file) pair of iteration n of a call.
RECURSIVE NamesAt(_, _, _)
NamesAt(in0, out0, n) ==
  IF n = 0
  THEN handle_iterative(in0, handle_args_none_output_file(in0, out0), 0)
  ELSE LET prev == NamesAt(in0, out0, n - 1)
       IN handle_iterative(prev[1], prev[2], n)

\* -------------------------------------------------------------------- state
VARIABLES
  entry,        \* which program runs: "adapt", "optimize", "extract", "sol",
                \* "compare", "trim", "clear" or "app"
  fs,           \* the paths that exist on disk
  in_arrays,    \* point-data arrays stored in the caller's input mesh
  pc,           \* position in generate_implicit_domain_volumetric_mesh
  args,         \* its parameters as bound at the call
  iter,         \* its loop variable
  input_file,   \* its local input_file
  output_file,  \* its local output_file
  sol_file,     \* its local sol_file
  arrays,       \* arrays of its local mesh
  reads,        \* the path read as the mesh of each iteration so far
  sols,         \* the directive path written in each iteration so far
  calls,        \* the engine invocations so far
  exc,          \* the exception that ended the call, "none" otherwise
  opt,          \* the parameters of optimize_mesh as the caller passed them
  opc,          \* position in optimize_mesh
  log,          \* the lines of the trial log file
  evals,        \* the parameter tuples minimize has evaluated so far
  xargs,        \* the parameters of extract_subdomain
  xelems,       \* the region tag of each element of its input mesh
  xpc,          \* position in extract_subdomain
  xout,         \* its local output_file
  xfile,        \* the mesh file at that path: << >> when absent, else << elements >>
  xcalls,       \* the engine invocations of run_mmg_extract so far
  xexc,         \* the exception that ended extract_subdomain, "none" otherwise
  smesh,        \* mesh[metric] of the iteration that calls it: << >> for a
                \* direct call, else << one value per vertex >>
  sargs,        \* the parameters of generate_sol_file
  snverts,      \* the vertex count of the mesh at its input_file
  spc,          \* position in generate_sol_file
  si,           \* the number of values its loop has written
  sbuf,         \* lines written to its file object and not yet on disk
  sfile,        \* the file at its sol path: << >> when absent, else << lines >>
  sold,         \* that file as it was before the call
  sexc,         \* the exception that ended generate_sol_file, "none" otherwise
  cmesh,        \* the vertices of the mesh at compare_meshes' adapted_mesh_file
  cvtu,         \* the .vtu file beside it: << >> when absent, else << content >>
  cvtu0,        \* that .vtu file as it was before the first call
  cadapted,     \* compare_meshes' adapted_mesh
  cpc,          \* position in compare_meshes
  cres,         \* the values the calls of compare_meshes returned, in order
  thist,        \* the lines of trim_unknown_keyword's file: as first found,
                \* and after each call so far
  outdir,       \* the entries of the app's output directory
  outkeys,      \* the entries a key of the session state holds the path of
  outlast,      \* the last call of clear_output: its file_type, "none" before
  outerr,       \* the entries whose removal raised in that call
  adisk,        \* the app's files: for each path -1 when absent, else the
                \* number of the mesh-generation run it holds or was derived from
  avol,         \* sts.vol_path
  adir,         \* sts.dirichlet_path
  apc,          \* position of the app: "idle" between page runs, else the
                \* next step of the "Generate volumetric mesh" button
  aruns,        \* number of runs of generate_volumetric_mesh so far
  astages,      \* the stages the last run started, each with its exit code
  awritten,     \* the paths the stages of the last run wrote
  aret,         \* what the last run returned
  aoffers,      \* the (mesh, boundary-condition set) pairs handed to the viewer
  aexc          \* the exception that ended the last page run, "none" otherwise

gvars == << fs, in_arrays, pc, args, iter, input_file, output_file,
            sol_file, arrays, reads, sols, calls, exc >>

ovars == << opt, opc, log, evals >>

xvars == << xargs, xelems, xpc, xout, xfile, xcalls, xexc >>

svars == << smesh, sargs, snverts, spc, si, sbuf, sfile, sold, sexc >>

cvars == << cmesh, cvtu, cvtu0, cadapted, cpc, cres >>

trvars == << thist >>

dvars == << outdir, outkeys, outlast, outerr >>

avars == << adisk, avol, adir, apc, aruns, astages, awritten, aret, aoffers,
            aexc >>

uvars == << trvars, dvars, avars >>

tvars == << xvars, svars, cvars, uvars >>

vars == << entry, gvars, ovars, tvars >>

\* ------------------------------------- generate_implicit_domain_volumetric_mesh
Raise(e) ==
  /\ pc' = "raised"
  /\ exc' = e

\* lines 265-267: the surface is read only when a surface file is given.
GenLoadSurf ==
  /\ pc = "start"
  /\ args.surf_file # None => args.surf_file \in fs
  /\ pc' = "names"
  /\ UNCHANGED << entry, tvars, ovars, fs, in_arrays, args, iter, input_file, output_file,
                  sol_file, arrays, reads, sols, calls, exc >>

GenLoadSurfMissing ==
  /\ pc = "start"
  /\ args.surf_file # None
  /\ args.surf_file \notin fs
  /\ Raise("FileNotFoundError")
  /\ UNCHANGED << entry, tvars, ovars, fs, in_arrays, args, iter, input_file, output_file,
                  sol_file, arrays, reads, sols, calls >>

\* lines 270-271
GenNames ==
  /\ pc = "names"
  /\ LET o == handle_args_none_output_file(input_file, output_file)
         io == handle_iterative(input_file, o, iter)
     IN /\ input_file' = io[1]
        /\ output_file' = io[2]
  /\ pc' = "read"
  /\ UNCHANGED << entry, tvars, ovars, fs, in_arrays, args, iter, sol_file, arrays, reads,
                  sols, calls, exc >>

\* The arrays pv.read finds in a mesh file: the caller's input mesh carries
\* in_arrays, a mesh written by the engine carries none.
ArraysOf(path) == IF path = args.input_file THEN in_arrays ELSE {}

\* line 273
GenRead ==
  /\ pc = "read"
  /\ input_file \in fs
  /\ arrays' = ArraysOf(input_file)
  /\ reads' = Append(reads, input_file)
  /\ pc' = "metric"
  /\ UNCHANGED << entry, tvars, ovars, fs, in_arrays, args, iter, input_file, output_file,
                  sol_file, sols, calls, exc >>

GenReadMissing ==
  /\ pc = "read"
  /\ input_file \notin fs
  /\ Raise("FileNotFoundError")
  /\ UNCHANGED << entry, tvars, ovars, fs, in_arrays, args, iter, input_file, output_file,
                  sol_file, arrays, reads, sols, calls >>

\* lines 280-282
GenDistance ==
  /\ pc = "metric"
  /\ args.metric = "implicit_distance"
  /\ args.surf_file # None
  /\ arrays' = arrays \cup {"implicit_distance"}
  /\ pc' = "index"
  /\ UNCHANGED << entry, tvars, ovars, fs, in_arrays, args, iter, input_file, output_file,
                  sol_file, reads, sols, calls, exc >>

\* line 282 when no surface file was given: surf was never assigned.
GenDistanceNoSurf ==
  /\ pc = "metric"
  /\ args.metric = "implicit_distance"
  /\ args.surf_file = None
  /\ Raise("UnboundLocalError")
  /\ UNCHANGED << entry, tvars, ovars, fs, in_arrays, args, iter, input_file, output_file,
                  sol_file, arrays, reads, sols, calls >>

VtuOf(path) == Replace(path, << ".mesh" >>, << ".vtu" >>)

\* lines 284-289: the .mesh file is regenerated from its .vtu companion.
GenConvert ==
  /\ pc = "metric"
  /\ args.metric # "implicit_distance"
  /\ LET m == SplitextRoot(input_file) \o << ".mesh" >>
     IN /\ VtuOf(m) \in fs
        /\ input_file' = m
        /\ fs' = fs \cup {m}
  /\ pc' = "index"
  /\ UNCHANGED << entry, tvars, ovars, in_arrays, args, iter, output_file, sol_file,
                  arrays, reads, sols, calls, exc >>

GenConvertMissing ==
  /\ pc = "metric"
  /\ args.metric # "implicit_distance"
  /\ LET m == SplitextRoot(input_file) \o << ".mesh" >>
     IN /\ VtuOf(m) \notin fs
        /\ input_file' = m
  /\ Raise("FileNotFoundError")
  /\ UNCHANGED << entry, tvars, ovars, fs, in_arrays, args, iter, output_file, sol_file,
                  arrays, reads, sols, calls >>

\* lines 308-309: mesh[metric]
GenIndex ==
  /\ pc = "index"
  /\ args.metric \in arrays
  /\ pc' = "sol"
  /\ UNCHANGED << entry, tvars, ovars, fs, in_arrays, args, iter, input_file, output_file,
                  sol_file, arrays, reads, sols, calls, exc >>

GenIndexKeyError ==
  /\ pc = "index"
  /\ args.metric \notin arrays
  /\ Raise("KeyError")
  /\ UNCHANGED << entry, tvars, ovars, fs, in_arrays, args, iter, input_file, output_file,
                  sol_file, arrays, reads, sols, calls >>

\* line 313, generate_sol_file
GenSol ==
  /\ pc = "sol"
  /\ sol_file' = SolPath(input_file)
  /\ fs' = fs \cup {SolPath(input_file)}
  /\ sols' = Append(sols, SolPath(input_file))
  /\ pc' = "mmg"
  /\ UNCHANGED << entry, tvars, ovars, in_arrays, args, iter, input_file, output_file,
                  arrays, reads, calls, exc >>

\* The command line run_mmg builds (lines 196-217) and the engine's exit code.
MmgCall(code) ==
  [it |-> iter, in |-> input_file, sol |-> sol_file, out |-> output_file,
   m |-> args.memory_max, hausd |-> args.hausd, hgrad |-> args.hgrad,
   hmin |-> args.hmin, hmax |-> args.hmax, exit |-> code]

\* lines 315-327, run_mmg: subprocess.call waits for the engine and its
\* return value is dropped.  The engine writes its output mesh when it
\* exits with 0 and writes nothing otherwise.
GenMmg ==
  /\ pc = "mmg"
  /\ \E code \in {0, 1} :
       /\ calls' = Append(calls, MmgCall(code))
       /\ fs' = IF code = 0 THEN fs \cup {output_file} ELSE fs
  /\ pc' = "trim"
  /\ UNCHANGED << entry, tvars, ovars, in_arrays, args, iter, input_file, output_file,
                  sol_file, arrays, reads, sols, exc >>

\* lines 329-332 and the loop's step (line 269)
GenTrim ==
  /\ pc = "trim"
  /\ output_file \in fs
  /\ iter' = IF iter < args.refine_iterations THEN iter + 1 ELSE iter
  /\ pc' = IF iter < args.refine_iterations THEN "names" ELSE "done"
  /\ UNCHANGED << entry, tvars, ovars, fs, in_arrays, args, input_file, output_file,
                  sol_file, arrays, reads, sols, calls, exc >>

\* trim_unknown_keyword opens a file that does not exist.
GenTrimMissing ==
  /\ pc = "trim"
  /\ output_file \notin fs
  /\ Raise("FileNotFoundError")
  /\ UNCHANGED << entry, tvars, ovars, fs, in_arrays, args, iter, input_file, output_file,
                  sol_file, arrays, reads, sols, calls >>

Gen ==
  \/ GenLoadSurf
  \/ GenLoadSurfMissing
  \/ GenNames
  \/ GenRead
  \/ GenReadMissing
  \/ GenDistance
  \/ GenDistanceNoSurf
  \/ GenConvert
  \/ GenConvertMissing
  \/ GenIndex
  \/ GenIndexKeyError
  \/ GenSol
  \/ GenMmg
  \/ GenTrim
  \/ GenTrimMissing

\* The files a call can find on disk: the input mesh, its .vtu companion,
\* the surface, and the output meshes an earlier run with the same
\* arguments left behind.
EarlierOutputs(a) ==
  {NamesAt(a.input_file, a.output_file, n)[2] : n \in 0..a.refine_iterations}

DiskChoices(a) ==
  {s \cup old : s \in SUBSET {a.input_file, VtuOf(a.input_file), SurfName},
                old \in {{}, EarlierOutputs(a)}}

\* An optional tuple or box is a sequence: empty for None, else its value.
NoExtract == [input_file |-> None, output_file |-> None, subdomain |-> 0,
              visuals |-> FALSE]

ExtIdle ==
  /\ xargs = NoExtract
  /\ xelems = << >>
  /\ xpc = "idle"
  /\ xout = None
  /\ xfile = << >>
  /\ xcalls = << >>
  /\ xexc = "none"

NoSol == [input_file |-> None, signed_distances |-> << >>]

SolIdle ==
  /\ smesh = << >>
  /\ sargs = NoSol
  /\ snverts = 0
  /\ spc = "idle"
  /\ si = 0
  /\ sbuf = << >>
  /\ sfile = << >>
  /\ sold = << >>
  /\ sexc = "none"

CmpIdle ==
  /\ cmesh = << >>
  /\ cvtu = << >>
  /\ cvtu0 = << >>
  /\ cadapted = << >>
  /\ cpc = "idle"
  /\ cres = << >>

TrimIdle == thist = << >>

ClearIdle ==
  /\ outdir = {}
  /\ outkeys = {}
  /\ outlast = "none"
  /\ outerr = {}

NoReturn == [pair |-> FALSE, result |-> [returncode |-> 0], path |-> None]

AppIdle ==
  /\ adisk = << >>
  /\ avol = None
  /\ adir = None
  /\ apc = "none"
  /\ aruns = 0
  /\ astages = << >>
  /\ awritten = {}
  /\ aret = NoReturn
  /\ aoffers = {}
  /\ aexc = "none"

MoreIdle == TrimIdle /\ ClearIdle /\ AppIdle

ToolsIdle == ExtIdle /\ SolIdle /\ CmpIdle /\ MoreIdle

NoOpt == [input_file |-> None, surf_file |-> None, rmse_file |-> None,
          initial |-> << >>, bounds |-> << >>]

InitAdapt ==
  /\ entry = "adapt"
  /\ args \in CliArgs
  /\ fs \in DiskChoices(args)
  /\ in_arrays \in {{}, {"density"}}
  /\ pc = "start"
  /\ iter = 0
  /\ input_file = args.input_file
  /\ output_file = args.output_file
  /\ sol_file = None
  /\ arrays = {}
  /\ reads = << >>
  /\ sols = << >>
  /\ calls = << >>
  /\ exc = "none"
  /\ opt = NoOpt
  /\ opc = "none"
  /\ log = << >>
  /\ evals = << >>
  /\ ToolsIdle

\* -------------------------------------------------------------- optimize_mesh
Tuple(a, b, c, d) == [hausd |-> a, hgrad |-> b, hmin |-> c, hmax |-> d]

\* line 106, the guess used when the caller gives none
DefaultGuess == Tuple(30, DEFAULT_HGRAD, DEFAULT_HMIN, DEFAULT_HMAX)

Box(lo, hi) == [lower |-> lo, upper |-> hi]

\* line 107
HardBounds == Box(Tuple(1, 100, 10, 1000), Tuple(50, 150, 1000, 20000))

Fields == {"hausd", "hgrad", "hmin", "hmax"}

InBox(x, b) == \A f \in Fields : b.lower[f] <= x[f] /\ x[f] <= b.upper[f]

\* line 106
InitialGuess(initial) == IF initial = << >> THEN DefaultGuess ELSE initial[1]

\* line 107: the bounds handed to minimize
SearchBounds(bounds) == HardBounds

OptimDir == << ".optim/" >>

\* lines 109-111
RmseFile(rmse_file) ==
  IF rmse_file = None THEN OptimDir \o << "mesh_optim", ".out" >> ELSE rmse_file

\* The directory a log path lies in: the caller's log lies in the working
\* directory, which exists.
LogDirExists(rmse_file) == rmse_file = None => OptimDir \in fs

\* The same write with the file opened in mode "w".
AppendLine_truncating(content, line) == << line >>

\* open(rmse_file, "a") followed by one write: the new content of the file.
AppendLine(content, line) == Append(content, line)

HeaderLine ==
  [kind |-> "header", initial_guess |-> InitialGuess(opt.initial),
   bounds |-> SearchBounds(opt.bounds)]

\* lines 106-116
OptHeader ==
  /\ opc = "header"
  /\ LogDirExists(opt.rmse_file)
  /\ log' = AppendLine(log, HeaderLine)
  /\ fs' = fs \cup {RmseFile(opt.rmse_file)}
  /\ opc' = "minimize"
  /\ UNCHANGED << entry, tvars, in_arrays, pc, args, iter, input_file, output_file,
                  sol_file, arrays, reads, sols, calls, exc, opt, evals >>

\* line 113 when the .optim directory of the default log does not exist
OptHeaderNoDir ==
  /\ opc = "header"
  /\ ~LogDirExists(opt.rmse_file)
  /\ opc' = "raised"
  /\ exc' = "FileNotFoundError"
  /\ UNCHANGED << entry, tvars, fs, in_arrays, pc, args, iter, input_file,
                  output_file, sol_file, arrays, reads, sols, calls, opt, log,
                  evals >>

\* lines 119-126: Powell's method evaluates the objective at the initial
\* guess before it searches; a guess outside the bounds only draws a warning.
\* No later evaluation is modelled: the first one never returns (the float
\* bound to metric names no array of the mesh, see TrialArgs and
\* GenIndexKeyError), and its exception ends the run.
MinimizeFirst ==
  /\ opc = "minimize"
  /\ evals = << >>
  /\ evals' = Append(evals, InitialGuess(opt.initial))
  /\ opc' = "objective"
  /\ UNCHANGED << entry, tvars, gvars, opt, log >>

\* The tuple the running trial evaluates.
Trial == evals[Len(evals)]

\* A parameter value as it appears in a file name or stands for a float.
ParamToken(v) == ToString(v)

\* Path.stem
Stem(path) == SplitextRoot(path)

\* lines 46-48
TrialOutput(in, t) ==
  OptimDir \o Stem(in) \o
  << "_optim_", ParamToken(t.hausd), "_", ParamToken(t.hgrad), "_",
     ParamToken(t.hmin), "_", ParamToken(t.hmax), ".mesh" >>

\* lines 43-49: check_project_directory makes the .optim directory
ObjPrepare ==
  /\ opc = "objective"
  /\ fs' = fs \cup {OptimDir}
  /\ opc' = "call_adapt"
  /\ UNCHANGED << entry, tvars, in_arrays, pc, args, iter, input_file, output_file,
                  sol_file, arrays, reads, sols, calls, exc, opt, log, evals >>

\* lines 51-60: the call's positional arguments bound to the parameters of
\* generate_implicit_domain_volumetric_mesh (lines 247-260) in order:
\* input_file, surf_file, output_file, metric, hausd, hgrad, hmin; hmax and
\* memory_max keep their defaults.  The float bound to metric is written as
\* its token.
TrialArgs(o, t) ==
  [input_file |-> o.input_file, surf_file |-> o.surf_file,
   output_file |-> TrialOutput(o.input_file, t),
   metric |-> ParamToken(t.hausd),
   hausd |-> t.hgrad, hgrad |-> t.hmin, hmin |-> t.hmax,
   hmax |-> DEFAULT_HMAX, memory_max |-> DEFAULT_MEMORY_MAX,
   refine_iterations |-> 0]

ObjCallAdapt ==
  /\ opc = "call_adapt"
  /\ args' = TrialArgs(opt, Trial)
  /\ input_file' = opt.input_file
  /\ output_file' = TrialOutput(opt.input_file, Trial)
  /\ iter' = 0
  /\ pc' = "start"
  /\ opc' = "adapt"
  /\ UNCHANGED << entry, tvars, fs, in_arrays, sol_file, arrays, reads, sols, calls,
                  exc, opt, log, evals >>

\* No handler between the failing statement and the caller of optimize_mesh:
\* the exception leaves objective_function, minimize and optimize_mesh.
ObjRaised ==
  /\ opc = "adapt"
  /\ pc = "raised"
  /\ opc' = "raised"
  /\ UNCHANGED << entry, tvars, gvars, opt, log, evals >>

Opt ==
  \/ OptHeader
  \/ OptHeaderNoDir
  \/ MinimizeFirst
  \/ ObjPrepare
  \/ ObjCallAdapt
  \/ ObjRaised

\* Guesses and boxes a caller passes.
CallerGuesses ==
  {<< >>, << Tuple(20, 120, 50, 5000) >>, << Tuple(80, 130, 100, 10000) >>}

CallerBounds ==
  {<< >>,
   << Box(DefaultGuess, DefaultGuess) >>,
   << Box(Tuple(20, 120, 50, 5000), Tuple(20, 120, 50, 5000)) >>,
   << Box(Tuple(1, 100, 10, 1000), Tuple(40, 140, 200, 12000)) >>}

CallerLogs == {None, << "trials", ".out" >>}

\* Lines a log file holds before the run.
OldLine == [kind |-> "old"]

RECURSIVE OldLogs(_)
OldLogs(n) ==
  IF n = 0 THEN {<< >>}
  ELSE OldLogs(n - 1) \cup {Append(l, OldLine) : l \in {m \in OldLogs(n - 1) : Len(m) = n - 1}}

OptArgs ==
  [input_file : InputNames, surf_file : {SurfName}, rmse_file : CallerLogs,
   initial : CallerGuesses, bounds : CallerBounds]

InitOptimize ==
  /\ entry = "optimize"
  /\ opt \in OptArgs
  /\ log \in OldLogs(MaxOldLog)
  /\ \E s \in SUBSET {opt.input_file, VtuOf(opt.input_file), SurfName, OptimDir} :
       fs = s \cup (IF log # << >> THEN {RmseFile(opt.rmse_file)} ELSE {})
  /\ log # << >> => LogDirExists(opt.rmse_file)
  /\ in_arrays \in {{}, {"density"}}
  /\ pc = "idle"
  /\ args = NoArgs
  /\ iter = 0
  /\ input_file = None
  /\ output_file = None
  /\ sol_file = None
  /\ arrays = {}
  /\ reads = << >>
  /\ sols = << >>
  /\ calls = << >>
  /\ exc = "none"
  /\ opc = "header"
  /\ evals = << >>
  /\ ToolsIdle

\* The adaptation and the optimizer at rest, for the runs of the other
\* programs.
MainIdle ==
  /\ fs = {}
  /\ in_arrays = {}
  /\ pc = "idle"
  /\ args = NoArgs
  /\ iter = 0
  /\ input_file = None
  /\ output_file = None
  /\ sol_file = None
  /\ arrays = {}
  /\ reads = << >>
  /\ sols = << >>
  /\ calls = << >>
  /\ exc = "none"
  /\ opt = NoOpt
  /\ opc = "none"
  /\ log = << >>
  /\ evals = << >>

\* ---------------------------------------------------------- extract_subdomain
\* subdomain_extractor.py, lines 69-76
handle_args_none_ouput_file(in, out) ==
  IF out = None THEN Stem(in) \o << "_extracted", ".mesh" >> ELSE out

\* The elements of a mesh that carry a region tag, in order.
RECURSIVE Select(_, _)
Select(elems, tag) ==
  IF elems = << >> THEN << >>
  ELSE (IF Head(elems) = tag THEN << Head(elems) >> ELSE << >>)
       \o Select(Tail(elems), tag)

\* line 121
ExtNames ==
  /\ xpc = "names"
  /\ xout' = handle_args_none_ouput_file(xargs.input_file, xargs.output_file)
  /\ xpc' = "mmg"
  /\ UNCHANGED << entry, gvars, ovars, svars, cvars, uvars, xargs, xelems, xfile, xcalls, xexc >>

\* The command line run_mmg_extract builds (lines 85-98) and the engine's
\* exit code.
ExtractCall(code) ==
  [in |-> xargs.input_file, out |-> xout, nsd |-> xargs.subdomain,
   exit |-> code]

\* line 123, run_mmg_extract: subprocess.call waits for the engine and its
\* return value is dropped.  An engine that exits with 0 has written the
\* elements that carry the tag, none when no element does; an engine that
\* exits otherwise has written nothing.
ExtMmg ==
  /\ xpc = "mmg"
  /\ \E code \in {0, 1} :
       /\ xcalls' = Append(xcalls, ExtractCall(code))
       /\ xfile' = IF code = 0
                   THEN << Select(xelems, xargs.subdomain) >>
                   ELSE xfile
  /\ xpc' = "show"
  /\ UNCHANGED << entry, gvars, ovars, svars, cvars, uvars, xargs, xelems, xout, xexc >>

\* lines 125-139: the output mesh is read only for the plot, and the path
\* is returned.
ExtReturn ==
  /\ xpc = "show"
  /\ xargs.visuals => xfile # << >>
  /\ xpc' = "done"
  /\ UNCHANGED << entry, gvars, ovars, svars, cvars, uvars, xargs, xelems, xout, xfile, xcalls,
                  xexc >>

\* line 126 when the output file does not exist
ExtShowMissing ==
  /\ xpc = "show"
  /\ xargs.visuals
  /\ xfile = << >>
  /\ xpc' = "raised"
  /\ xexc' = "FileNotFoundError"
  /\ UNCHANGED << entry, gvars, ovars, svars, cvars, uvars, xargs, xelems, xout, xfile, xcalls >>

Ext ==
  \/ ExtNames
  \/ ExtMmg
  \/ ExtReturn
  \/ ExtShowMissing

\* Region tags of the elements of the meshes extracted from.
Tags == {2, 3}

RECURSIVE SeqsUpTo(_, _)
SeqsUpTo(S, n) ==
  IF n = 0 THEN {<< >>}
  ELSE LET shorter == SeqsUpTo(S, n - 1)
       IN shorter \cup {Append(q, x) : q \in {r \in shorter : Len(r) = n - 1}, x \in S}

ExtractArgs ==
  [input_file : {<< "x", "adapted", ".mesh" >>},
   output_file : {None, << "y", ".mesh" >>},
   subdomain : {3}, visuals : BOOLEAN]

InitExtract ==
  /\ entry = "extract"
  /\ MainIdle
  /\ xargs \in ExtractArgs
  /\ xelems \in SeqsUpTo(Tags, MaxElems)
  /\ xpc = "names"
  /\ xout = None
  /\ xfile \in {<< >>, << << 3 >> >>}
  /\ xcalls = << >>
  /\ xexc = "none"
  /\ SolIdle
  /\ CmpIdle
  /\ MoreIdle

\* ----------------------------------------------------------- generate_sol_file
\* The value of a digit token.
DigitVal(t) == CHOOSE d \in 0..9 : ToString(d) = t

\* The fraction digits of str(x) for x = v / 100, 0 <= v: "0" for a whole
\* number, one digit for whole tenths, else two digits.
FracDigits_no_leading_zero(h) ==
  IF h % 10 = 0 THEN << ToString(h \div 10) >>
  ELSE IF h < 10 THEN << ToString(h) >>
  ELSE << ToString(h \div 10), ToString(h % 10) >>

FracDigits(h) ==
  IF h % 10 = 0 THEN << ToString(h \div 10) >>
  ELSE << ToString(h \div 10), ToString(h % 10) >>

\* f"{distance}" (line 168) for the float v / 100, one token per character.
FormatFloat(v) ==
  LET a == IF v < 0 THEN -v ELSE v
  IN (IF v < 0 THEN << "-" >> ELSE << >>)
     \o Digits(a \div 100) \o << "." >> \o FracDigits(a % 100)

\* The lines of the file lines 162-169 write for a field.
HeaderLines(field) ==
  << << "MeshVersionFormatted", " ", "2" >>,
     << "Dimension", " ", "3" >>,
     << "SolAtVertices" >>,
     Digits(Len(field)),
     << "1", " ", "1" >> >>

ValueLine(d) == FormatFloat(d) \o << " " >>

EndLine == << "End" >>

Directive(field) ==
  HeaderLines(field) \o [i \in 1..Len(field) |-> ValueLine(field[i])]
  \o << EndLine >>

\* lines 308-313 of generate_implicit_domain_volumetric_mesh:
\* signed_distances = mesh[metric] * -1, passed to generate_sol_file.
GenSignedDistances ==
  /\ spc = "field"
  /\ sargs' = [sargs EXCEPT
                 !.signed_distances = [i \in 1..Len(smesh[1]) |-> -smesh[1][i]]]
  /\ spc' = "open"
  /\ UNCHANGED << entry, gvars, ovars, xvars, cvars, uvars, smesh, snverts, si, sbuf,
                  sfile, sold, sexc >>

\* line 161: open(sol_file, "w") makes the file or empties it.
SolOpen ==
  /\ spc = "open"
  /\ sfile' = << << >> >>
  /\ spc' = "header"
  /\ UNCHANGED << entry, gvars, ovars, xvars, cvars, uvars, smesh, sargs, snverts, si, sbuf, sold,
                  sexc >>

\* lines 162-166
SolWriteHeader ==
  /\ spc = "header"
  /\ sbuf' = sbuf \o HeaderLines(sargs.signed_distances)
  /\ spc' = "values"
  /\ UNCHANGED << entry, gvars, ovars, xvars, cvars, uvars, smesh, sargs, snverts, si, sfile,
                  sold, sexc >>

\* lines 167-168, one round of the loop
SolWriteValue ==
  /\ spc = "values"
  /\ si < Len(sargs.signed_distances)
  /\ sbuf' = Append(sbuf, ValueLine(sargs.signed_distances[si + 1]))
  /\ si' = si + 1
  /\ UNCHANGED << entry, gvars, ovars, xvars, cvars, uvars, smesh, sargs, snverts, spc, sfile,
                  sold, sexc >>

\* line 169
SolWriteEnd ==
  /\ spc = "values"
  /\ si = Len(sargs.signed_distances)
  /\ sbuf' = Append(sbuf, EndLine)
  /\ spc' = "close"
  /\ UNCHANGED << entry, gvars, ovars, xvars, cvars, uvars, smesh, sargs, snverts, si, sfile,
                  sold, sexc >>

\* The file object writes its buffer out when the buffer is full, at a point
\* the sizes of the lines decide.
SolFlush ==
  /\ spc \in {"values", "close"}
  /\ sbuf # << >>
  /\ sfile' = << sfile[1] \o sbuf >>
  /\ sbuf' = << >>
  /\ UNCHANGED << entry, gvars, ovars, xvars, cvars, uvars, smesh, sargs, snverts, spc, si, sold,
                  sexc >>

\* The end of the with block (line 161) and the return (line 173).
SolClose ==
  /\ spc = "close"
  /\ sfile' = << sfile[1] \o sbuf >>
  /\ sbuf' = << >>
  /\ spc' = "done"
  /\ UNCHANGED << entry, gvars, ovars, xvars, cvars, uvars, smesh, sargs, snverts, si, sold, sexc >>

\* A write that fails (the disk is full, the run is interrupted): the with
\* block closes the file, what was written stays, and the exception leaves
\* generate_sol_file.
SolWriteFails ==
  /\ spc \in {"header", "values"}
  /\ sfile' = << sfile[1] \o sbuf >>
  /\ sbuf' = << >>
  /\ spc' = "raised"
  /\ sexc' = "OSError"
  /\ UNCHANGED << entry, gvars, ovars, xvars, cvars, uvars, smesh, sargs, snverts, si, sold >>

Sol ==
  \/ GenSignedDistances
  \/ SolOpen
  \/ SolWriteHeader
  \/ SolWriteValue
  \/ SolWriteEnd
  \/ SolFlush
  \/ SolClose
  \/ SolWriteFails

\* Signed distances in hundredths.
Distances == {-5, 0, 50, 1234}

SolArgs ==
  [input_file : {<< "x", "initial", ".mesh" >>},
   signed_distances : SeqsUpTo(Distances, MaxVerts)]

\* A direct call with any field, or the call of an adaptation iteration
\* whose mesh carries one value of the metric per vertex.
InitSol ==
  /\ entry = "sol"
  /\ MainIdle
  /\ ExtIdle
  /\ \/ /\ smesh = << >>
        /\ sargs \in SolArgs
        /\ snverts \in 0..MaxVerts
        /\ spc = "open"
     \/ /\ \E m \in SeqsUpTo(Distances, MaxVerts) :
             /\ smesh = << m >>
             /\ snverts = Len(m)
        /\ sargs \in {a \in SolArgs : a.signed_distances = << >>}
        /\ spc = "field"
  /\ si = 0
  /\ sbuf = << >>
  /\ sfile \in {<< >>, << Directive(<< 50 >>) >>}
  /\ sold = sfile
  /\ sexc = "none"
  /\ CmpIdle
  /\ MoreIdle

\* -------------------------------------------------------------- compare_meshes
\* A vertex of the adapted mesh: d is its signed distance to the original
\* surface in hundredths (its position decides it), boundary says whether it
\* lies on the mesh's boundary.
Vertex == [d : {-5, 0, 50}, boundary : BOOLEAN]

\* meshio.write(adapted_vtu_path, adapted_mesh) (line 75): the .vtu file
\* holds the points of the mesh in their order.
Vtu(points) == [format |-> "vtu", points |-> points]

\* line 71
CmpRead ==
  /\ cpc = "read"
  /\ cadapted' = cmesh
  /\ cpc' = "write"
  /\ UNCHANGED << entry, gvars, ovars, xvars, svars, uvars, cmesh, cvtu, cvtu0, cres >>

CmpWriteVtu_keep_existing ==
  /\ cpc = "write"
  /\ cvtu' = IF cvtu = << >> THEN << Vtu(cadapted) >> ELSE cvtu
  /\ cpc' = "reload"
  /\ UNCHANGED << entry, gvars, ovars, xvars, svars, uvars, cmesh, cvtu0, cadapted,
                  cres >>

\* lines 72-75: the side file is written over whatever is at its path.
CmpWriteVtu ==
  /\ cpc = "write"
  /\ cvtu' = << Vtu(cadapted) >>
  /\ cpc' = "reload"
  /\ UNCHANGED << entry, gvars, ovars, xvars, svars, uvars, cmesh, cvtu0, cadapted,
                  cres >>

\* line 76
CmpReadVtu ==
  /\ cpc = "reload"
  /\ cadapted' = cvtu[1].points
  /\ cpc' = "distance"
  /\ UNCHANGED << entry, gvars, ovars, xvars, svars, uvars, cmesh, cvtu, cvtu0, cres >>

\* lines 78-80: point_data["implicit_distance"] has one value per point of
\* adapted_mesh.
ImplicitDistance(points) == [i \in 1..Len(points) |-> points[i].d]

RECURSIVE SumSquares(_)
SumSquares(ds) ==
  IF ds = << >> THEN 0 ELSE ds[1] * ds[1] + SumSquares(Tail(ds))

\* line 82: np.sqrt(np.mean(np.square(signed_distances))) is the square root
\* of sumsq / count (in hundredths squared); count = 0 gives nan.
Rmse(ds) == [sumsq |-> SumSquares(ds), count |-> Len(ds)]

\* lines 78-104
CmpReturn ==
  /\ cpc = "distance"
  /\ cres' = Append(cres, Rmse(ImplicitDistance(cadapted)))
  /\ cpc' = "done"
  /\ UNCHANGED << entry, gvars, ovars, xvars, svars, uvars, cmesh, cvtu, cvtu0,
                  cadapted >>

\* The caller calls compare_meshes again with the same two files.
CmpAgain ==
  /\ cpc = "done"
  /\ Len(cres) < MaxCalls
  /\ cadapted' = << >>
  /\ cpc' = "read"
  /\ UNCHANGED << entry, gvars, ovars, xvars, svars, uvars, cmesh, cvtu, cvtu0, cres >>

Cmp ==
  \/ CmpRead
  \/ CmpWriteVtu
  \/ CmpReadVtu
  \/ CmpReturn
  \/ CmpAgain

\* A side file an earlier comparison of another mesh left at the same path.
EarlierVtu == Vtu(<< [d |-> 50, boundary |-> TRUE] >>)

InitCompare ==
  /\ entry = "compare"
  /\ MainIdle
  /\ ExtIdle
  /\ SolIdle
  /\ cmesh \in SeqsUpTo(Vertex, MaxPoints)
  /\ cvtu \in {<< >>, << EarlierVtu >>}
  /\ cvtu0 = cvtu
  /\ cadapted = << >>
  /\ cpc = "read"
  /\ cres = << >>
  /\ MoreIdle

\* -------------------------------------------------------- trim_unknown_keyword
\* A line is a sequence of tokens without its line end; " " is a run of
\* white space.
RECURSIVE LStrip(_)
LStrip(line) ==
  IF line # << >> /\ line[1] = " " THEN LStrip(Tail(line)) ELSE line

RECURSIVE RStrip(_)
RStrip(line) ==
  IF line # << >> /\ line[Len(line)] = " "
  THEN RStrip(SubSeq(line, 1, Len(line) - 1))
  ELSE line

\* str.strip()
Strip(line) == RStrip(LStrip(line))

\* line.strip().startswith(keyword), line 235
StartsWith(line, keyword) ==
  /\ Strip(line) # << >>
  /\ Strip(line)[1] = keyword

\* The loop of lines 233-242 from a position on: the lines it writes.
RECURSIVE TrimLoop_keep_blank(_, _, _)
TrimLoop_keep_blank(lines, keyword, skip) ==
  IF lines = << >> THEN << >>
  ELSE IF StartsWith(lines[1], keyword)
       THEN TrimLoop_keep_blank(Tail(lines), keyword, TRUE)
       ELSE IF skip /\ Strip(lines[1]) = << >>
            THEN << lines[1] >> \o TrimLoop_keep_blank(Tail(lines), keyword, FALSE)
            ELSE IF ~skip
                 THEN << lines[1] >> \o TrimLoop_keep_blank(Tail(lines), keyword, skip)
                 ELSE TrimLoop_keep_blank(Tail(lines), keyword, skip)

RECURSIVE TrimLoop(_, _, _)
TrimLoop(lines, keyword, skip) ==
  IF lines = << >> THEN << >>
  ELSE IF StartsWith(lines[1], keyword)
       THEN TrimLoop(Tail(lines), keyword, TRUE)
       ELSE IF skip /\ Strip(lines[1]) = << >>
            THEN TrimLoop(Tail(lines), keyword, FALSE)
            ELSE IF ~skip
                 THEN << lines[1] >> \o TrimLoop(Tail(lines), keyword, skip)
                 ELSE TrimLoop(Tail(lines), keyword, skip)

\* The content trim_unknown_keyword leaves in a file that held lines.
trim_unknown_keyword(lines, keyword) == TrimLoop(lines, keyword, FALSE)

\* lines 329-332, and the same call made once more on the file
Trim ==
  /\ entry = "trim"
  /\ Len(thist) <= MaxTrims
  /\ thist' = Append(thist,
                     trim_unknown_keyword(thist[Len(thist)], "RequiredEdges"))
  /\ UNCHANGED << entry, gvars, ovars, xvars, svars, cvars, dvars, avars >>

\* Lines of a mesh file the engine wrote.
MeshLines ==
  { << "RequiredEdges" >>,
    << " ", "RequiredEdges", " " >>,
    << "7", " ", "RequiredEdges" >>,
    << "End" >>,
    << >>,
    << " " >> }

InitTrim ==
  /\ entry = "trim"
  /\ MainIdle
  /\ ExtIdle
  /\ SolIdle
  /\ CmpIdle
  /\ ClearIdle
  /\ AppIdle
  /\ \E f \in SeqsUpTo(MeshLines, MaxLines) : thist = << f >>

\* ---------------------------------------------------------------- clear_output
\* An entry of the output directory: a regular file or a directory.
Entry(n, k) == [name |-> n, kind |-> k]

Files(dir) == {e \in dir : e.kind = "file"}

Dirs(dir) == {e \in dir : e.kind = "dir"}

\* The entries lines 447-469 try to remove.  The first branch (line 449) is
\* taken for every entry when file_type is "all" or "files", so the branch
\* of line 463 is reached only with file_type = "dirs".
Targets(dir, file_type, file_name) ==
  IF file_type = "all" \/ file_type = "files" THEN Files(dir)
  ELSE IF file_type = "file" /\ file_name # None
       THEN {e \in Files(dir) : e.name = file_name}
       ELSE IF file_type = "all" \/ file_type = "dirs" THEN Dirs(dir)
            ELSE {}

\* clear_output(file_type, file_name): an unlink or rmtree that raises is
\* caught and printed (lines 454, 461, 468) and leaves its entry and the
\* session key; clear_session_state deletes the keys that hold the path of a
\* removed entry.
ClearOutput(file_type, file_name) ==
  /\ entry = "clear"
  /\ \E kept \in SUBSET Targets(outdir, file_type, file_name) :
       LET removed == Targets(outdir, file_type, file_name) \ kept
       IN /\ outdir' = outdir \ removed
          /\ outkeys' = outkeys \ {e.name : e \in removed}
          /\ outerr' = {e.name : e \in kept}
  /\ outlast' = file_type
  /\ UNCHANGED << entry, gvars, ovars, xvars, svars, cvars, trvars, avars >>

\* The buttons of page_output (lines 395-421); the buttons are drawn only
\* when the directory holds a file (line 387).
PageOutput ==
  /\ Files(outdir) # {}
  /\ \/ ClearOutput("all", None)
     \/ ClearOutput("files", None)
     \/ \E e \in Files(outdir) : ClearOutput("file", e.name)
     \/ ClearOutput("dirs", None)

OutputEntries ==
  { Entry("x_volumetric.mesh", "file"), Entry("x_dirichlet_BC.npy", "file"),
    Entry(".optim", "dir"), Entry("Geometry", "dir") }

InitClear ==
  /\ entry = "clear"
  /\ MainIdle
  /\ ExtIdle
  /\ SolIdle
  /\ CmpIdle
  /\ TrimIdle
  /\ AppIdle
  /\ outdir \in SUBSET OutputEntries
  /\ outkeys \in SUBSET {e.name : e \in outdir}
  /\ outlast = "none"
  /\ outerr = {}

\* ------------------------------------------------- the app's meshing and BC pages
DirTokens == {"out/", "geom/", ".optim/"}

\* os.path.basename
RECURSIVE Basename(_)
Basename(path) ==
  IF \E i \in 1..Len(path) : path[i] \in DirTokens
  THEN Basename(Tail(path))
  ELSE path

\* sts.output_path and sts.boi_path
OutputPath == << "out/" >>

BoiPath == << "geom/", "femur", ".vtp" >>

\* app_functions.py lines 177-180, 189, 198, 208 and 227
QaFile(mesh_file, output_path) ==
  output_path \o SplitextRoot(<< "uFE_" >> \o Basename(mesh_file))
  \o << "_qa", ".ply" >>

AlignedFile(qa_file) == SplitextRoot(qa_file) \o << "_aligned", ".ply" >>

InitialFile(aligned_file) ==
  SplitextRoot(aligned_file) \o << "_initial", ".mesh" >>

VolumeFile(aligned_file) ==
  SplitextRoot(aligned_file) \o << "_volumetric", ".mesh" >>

ExtractedFile(volume_file) ==
  SplitextRoot(volume_file) \o << "_extracted", ".mesh" >>

qa_file == QaFile(BoiPath, OutputPath)

aligned_file == AlignedFile(qa_file)

initial_file == InitialFile(aligned_file)

volume_file == VolumeFile(aligned_file)

\* A Dirichlet set an earlier selection wrote for the bone.
DirichletFile ==
  OutputPath \o << "uFE_", "femur", "_manual_dirichlet_BC", ".npy" >>

AppPaths ==
  { qa_file, aligned_file, initial_file, SolPath(initial_file), volume_file,
    ExtractedFile(volume_file), DirichletFile }

\* if result.returncode: (lines 185, 194, 204, 223)
Failed_never(result) == FALSE

Failed(result) == result.returncode # 0

Bare(result) == [pair |-> FALSE, result |-> result, path |-> None]

Pair(result, path) == [pair |-> TRUE, result |-> result, path |-> path]

\* A stage's process has run to its end: it wrote its outputs when it exits
\* with 0 and nothing otherwise.
StageRan(stage, outputs, code) ==
  /\ astages' = Append(astages, [stage |-> stage, returncode |-> code])
  /\ adisk' = IF code = 0
              THEN [p \in AppPaths |-> IF p \in outputs THEN aruns ELSE adisk[p]]
              ELSE adisk
  /\ awritten' = IF code = 0 THEN awritten \cup outputs ELSE awritten

\* page_meshing lines 246-251: the button starts generate_volumetric_mesh.
AppGenerate ==
  /\ apc = "idle"
  /\ aruns < MaxRuns
  /\ aruns' = aruns + 1
  /\ astages' = << >>
  /\ awritten' = {}
  /\ aret' = NoReturn
  /\ aexc' = "none"
  /\ apc' = "qa"
  /\ UNCHANGED << entry, gvars, ovars, xvars, svars, cvars, trvars, dvars,
                  adisk, avol, adir, aoffers >>

\* lines 177-187
VolQa ==
  /\ apc = "qa"
  /\ \E code \in {0, 1} :
       LET result == [returncode |-> code]
       IN /\ StageRan("qa", {qa_file}, code)
          /\ IF Failed(result)
             THEN aret' = Bare(result) /\ apc' = "unpack"
             ELSE aret' = aret /\ apc' = "align"
  /\ UNCHANGED << entry, gvars, ovars, xvars, svars, cvars, trvars, dvars,
                  avol, adir, aruns, aoffers, aexc >>

\* lines 189-196
VolAlign ==
  /\ apc = "align"
  /\ \E code \in {0, 1} :
       LET result == [returncode |-> code]
       IN /\ StageRan("align", {aligned_file}, code)
          /\ IF Failed(result)
             THEN aret' = Bare(result) /\ apc' = "unpack"
             ELSE aret' = aret /\ apc' = "initial"
  /\ UNCHANGED << entry, gvars, ovars, xvars, svars, cvars, trvars, dvars,
                  avol, adir, aruns, aoffers, aexc >>

\* lines 198-206
VolInitial ==
  /\ apc = "initial"
  /\ \E code \in {0, 1} :
       LET result == [returncode |-> code]
       IN /\ StageRan("initial", {initial_file}, code)
          /\ IF Failed(result)
             THEN aret' = Bare(result) /\ apc' = "unpack"
             ELSE aret' = aret /\ apc' = "adapt"
  /\ UNCHANGED << entry, gvars, ovars, xvars, svars, cvars, trvars, dvars,
                  avol, adir, aruns, aoffers, aexc >>

\* lines 208-229: the adaptation writes the directive beside its input and
\* its output mesh at volume_file; it extracts no subdomain (lines 334-340 of
\* the generator are comments).
VolAdapt ==
  /\ apc = "adapt"
  /\ \E code \in {0, 1} :
       LET result == [returncode |-> code]
       IN /\ StageRan("adapt", {SolPath(initial_file), volume_file}, code)
          /\ aret' = IF Failed(result)
                     THEN Pair(result, None)
                     ELSE Pair(result, ExtractedFile(volume_file))
  /\ apc' = "unpack"
  /\ UNCHANGED << entry, gvars, ovars, xvars, svars, cvars, trvars, dvars,
                  avol, adir, aruns, aoffers, aexc >>

\* page_meshing line 247: result, sts.vol_path = <the returned value>
PageUnpack ==
  /\ apc = "unpack"
  /\ aret.pair
  /\ avol' = aret.path
  /\ apc' = "idle"
  /\ UNCHANGED << entry, gvars, ovars, xvars, svars, cvars, trvars, dvars,
                  adisk, adir, aruns, astages, awritten, aret, aoffers, aexc >>

\* The same line when the value is a single CompletedProcess, which cannot
\* be unpacked.
PageUnpackFails ==
  /\ apc = "unpack"
  /\ ~aret.pair
  /\ aexc' = "TypeError"
  /\ apc' = "idle"
  /\ UNCHANGED << entry, gvars, ovars, xvars, svars, cvars, trvars, dvars,
                  adisk, avol, adir, aruns, astages, awritten, aret, aoffers >>

Present(path) == path # None /\ adisk[path] # -1

\* page_boi lines 150-167: the paths are set from the files of the output
\* directory that name the bone; "extracted.mesh" comes after
\* "volumetric.mesh" and wins when both files exist.
PageBoi ==
  /\ apc = "idle"
  /\ avol' = IF Present(ExtractedFile(volume_file)) THEN ExtractedFile(volume_file)
             ELSE IF Present(volume_file) THEN volume_file
             ELSE avol
  /\ adir' = IF Present(DirichletFile) THEN DirichletFile ELSE adir
  /\ aexc' = "none"
  /\ UNCHANGED << entry, gvars, ovars, xvars, svars, cvars, trvars, dvars,
                  adisk, apc, aruns, astages, awritten, aret, aoffers >>

\* page_BCs lines 316-329: manual_BC_selector has three parameters and is
\* called with four arguments.
PageSelectBCs ==
  /\ apc = "idle"
  /\ Present(avol)
  /\ aexc' = "TypeError"
  /\ UNCHANGED << entry, gvars, ovars, xvars, svars, cvars, trvars, dvars,
                  adisk, avol, adir, apc, aruns, astages, awritten, aret,
                  aoffers >>

\* page_FE lines 351-357 and page_BCs lines 338-345, visualize_BCs: the
\* viewer is started with the session's mesh path and Dirichlet set.
PageShowBCs ==
  /\ apc = "idle"
  /\ Present(adir)
  /\ avol # None
  /\ aoffers' = aoffers \cup
       {[mesh |-> avol, meshrun |-> adisk[avol], setrun |-> adisk[adir]]}
  /\ aexc' = "none"
  /\ UNCHANGED << entry, gvars, ovars, xvars, svars, cvars, trvars, dvars,
                  adisk, avol, adir, apc, aruns, astages, awritten, aret >>

\* The same buttons with no mesh path: None in the command line of
\* subprocess.run.
PageShowBCsNoMesh ==
  /\ apc = "idle"
  /\ Present(adir)
  /\ avol = None
  /\ aexc' = "TypeError"
  /\ UNCHANGED << entry, gvars, ovars, xvars, svars, cvars, trvars, dvars,
                  adisk, avol, adir, apc, aruns, astages, awritten, aret,
                  aoffers >>

App ==
  \/ AppGenerate
  \/ VolQa
  \/ VolAlign
  \/ VolInitial
  \/ VolAdapt
  \/ PageUnpack
  \/ PageUnpackFails
  \/ PageBoi
  \/ PageSelectBCs
  \/ PageShowBCs
  \/ PageShowBCsNoMesh

\* A session starts on an output directory that holds nothing or what an
\* earlier session (run 0) left: its extracted mesh, its volumetric mesh, a
\* Dirichlet set selected on it.  setup_paths (app_io.py lines 83-93) finds
\* the extracted mesh; it looks for "dirichlet_BC.npy" in lower-cased file
\* names and so finds no Dirichlet set.
InitApp ==
  /\ entry = "app"
  /\ MainIdle
  /\ ExtIdle
  /\ SolIdle
  /\ CmpIdle
  /\ TrimIdle
  /\ ClearIdle
  /\ \E old \in SUBSET {volume_file, ExtractedFile(volume_file), DirichletFile} :
       adisk = [p \in AppPaths |-> IF p \in old THEN 0 ELSE -1]
  /\ avol = IF adisk[ExtractedFile(volume_file)] # -1
            THEN ExtractedFile(volume_file) ELSE None
  /\ adir = None
  /\ apc = "idle"
  /\ aruns = 0
  /\ astages = << >>
  /\ awritten = {}
  /\ aret = NoReturn
  /\ aoffers = {}
  /\ aexc = "none"

Init ==
  \/ InitAdapt
  \/ InitOptimize
  \/ InitExtract
  \/ InitSol
  \/ InitCompare
  \/ InitTrim
  \/ InitClear
  \/ InitApp

Next == Gen \/ Opt \/ Ext \/ Sol \/ Cmp \/ Trim \/ PageOutput \/ App

Spec == Init /\ [][Next]_vars

\* ------------------------------------------------------------------ claims
IsPrefix(s, t) == Len(s) <= Len(t) /\ SubSeq(t, 1, Len(s)) = s

\* C1: in every iteration n >= 1 of one call, the mesh read as the
\* iteration's input, and given to the engine as its input, is the output
\* mesh of iteration n-1.
C1_InputIsPreviousOutput ==
  /\ \A n \in 2..Len(reads) : reads[n] = calls[n - 1].out
  /\ \A n \in 2..Len(calls) : calls[n].in = calls[n - 1].out

\* C2: once the engine has exited with a non-zero code, no later engine
\* process is started and the call ends with an AdaptationError.
C2_EngineFailureAborts ==
  \A i \in 1..Len(calls) :
    calls[i].exit # 0 =>
      /\ i = Len(calls)
      /\ pc # "done"
      /\ pc = "raised" => exc = "AdaptationError"

\* C3: in an optimizer trial the adaptation is called with
\* refine_iterations = 0 on the initial mesh and the target surface, and
\* the values it holds for the engine's hausd, hgrad, hmin and hmax are the
\* trial's hausd, hgrad, hmin and hmax.
C3_EngineGetsTrialTuple ==
  opc = "adapt" =>
    /\ args.refine_iterations = 0
    /\ args.input_file = opt.input_file
    /\ args.surf_file = opt.surf_file
    /\ args.hausd = Trial.hausd
    /\ args.hgrad = Trial.hgrad
    /\ args.hmin = Trial.hmin
    /\ args.hmax = Trial.hmax

AllEnginesSucceeded == \A i \in 1..Len(calls) : calls[i].exit = 0

\* C4: a call that returns with every engine run successful has made
\* refine_iterations + 1 engine runs, their output names are pairwise
\* distinct, and each name after the first is handle_iterative's result for
\* the previous output name and the iteration index.
C4_DistinctOutputs ==
  (pc = "done" /\ AllEnginesSucceeded) =>
    /\ Len(calls) = args.refine_iterations + 1
    /\ \A i, j \in 1..Len(calls) : i # j => calls[i].out # calls[j].out
    /\ \A i \in 1..Len(calls) : calls[i].out \in fs
    /\ \A i \in 2..Len(calls) :
         calls[i].out = handle_iterative(calls[i].in, calls[i - 1].out, i - 1)[2]

C4_Witness ==
  /\ entry = "adapt"
  /\ pc = "done"
  /\ AllEnginesSucceeded
  /\ args.refine_iterations >= 2
  /\ Len(calls) = args.refine_iterations + 1

\* C5: a call with hmin > hmax starts no engine process and does not
\* return normally.
C5_SizesValidated ==
  (entry = "adapt" /\ args.hmin > args.hmax) =>
    /\ calls = << >>
    /\ pc # "done"

TrialFailed == entry = "optimize" /\ evals # << >> /\ pc = "raised"

\* C6: a trial that fails does not end the optimize run: the run goes on
\* with a log line written for the trial.
C6_FailedTrialIsLogged ==
  TrialFailed =>
    /\ opc # "raised"
    /\ opc # "adapt" => \E i \in 1..Len(log) : log[i].kind = "trial"

RunEnded == entry = "optimize" /\ opc \in {"done", "raised"}

\* The log held no line when the run started: lines are only ever added.
LogWasEmpty == \A i \in 1..Len(log) : log[i].kind # "old"

\* C7: when a run that started on an empty log and executed n trials has
\* ended, the log has n lines and each is a trial record.
C7_OneLinePerTrial ==
  (RunEnded /\ LogWasEmpty) =>
    /\ Len(log) = Len(evals)
    /\ \A i \in 1..Len(log) : log[i].kind = "trial"

\* C8: no step of a run truncates or rewrites the trial log: the content
\* before a step is a prefix of the content after it.
C8_LogAppendOnly == [][IsPrefix(log, log')]_vars

C8_Witness ==
  /\ entry = "optimize"
  /\ Len(log) >= 2
  /\ log[1] = OldLine
  /\ log[Len(log)].kind = "header"

\* C10: every tuple the run evaluates lies inside the box the caller
\* passed as bounds.
C10_EvaluatedInsideCallerBox ==
  opt.bounds # << >> =>
    \A i \in 1..Len(evals) : InBox(evals[i], opt.bounds[1])

\* C11: a run that has executed trials ends by returning, with the best
\* tuple among the trials executed and its RMSE.
C11_ReturnsBestSeen ==
  (RunEnded /\ evals # << >>) =>
    /\ opc = "done"
    /\ exc = "none"

\* C13: an extraction from a mesh in which no element carries the tag ends
\* with an EmptySelectionError, and no file exists at its output path.
C13_EmptySelectionRejected ==
  (entry = "extract" /\ Select(xelems, xargs.subdomain) = << >>
     /\ xpc \in {"done", "raised"}) =>
    /\ xpc = "raised"
    /\ xexc = "EmptySelectionError"
    /\ xfile = << >>

\* C14: a field whose length is not the vertex count of the mesh is
\* rejected: the call does not return normally and the file at the
\* directive path is never created or changed.
C14_LengthChecked ==
  (entry = "sol" /\ Len(sargs.signed_distances) # snverts) =>
    /\ sfile = sold
    /\ spc # "done"

\* Reading a directive back: the number a line of digits states, and the
\* float (in hundredths) a value line states.
RECURSIVE ParseNat(_)
ParseNat(digits) ==
  IF digits = << >> THEN 0
  ELSE 10 * ParseNat(SubSeq(digits, 1, Len(digits) - 1))
       + DigitVal(digits[Len(digits)])

ParseFloat(line) ==
  LET neg == line[1] = "-"
      body == IF neg THEN Tail(line) ELSE line
      dot == CHOOSE i \in 1..Len(body) : body[i] = "."
      last == IF body[Len(body)] = " " THEN Len(body) - 1 ELSE Len(body)
      frac == SubSeq(body, dot + 1, last)
      hundredths == IF Len(frac) = 1 THEN 10 * DigitVal(frac[1])
                    ELSE 10 * DigitVal(frac[1]) + DigitVal(frac[2])
      a == 100 * ParseNat(SubSeq(body, 1, dot - 1)) + hundredths
  IN IF neg THEN -a ELSE a

\* C15: the file a call leaves when it returns holds the header, a declared
\* count equal to the number of value lines, value lines that read back as
\* the field's values in order, and the End marker as its last line.
C15_DirectiveRoundTrip ==
  (entry = "sol" /\ spc = "done") =>
    LET lines == sfile[1]
        n == Len(lines) - 6
    IN /\ n >= 0
       /\ lines[1] = << "MeshVersionFormatted", " ", "2" >>
       /\ lines[2] = << "Dimension", " ", "3" >>
       /\ lines[3] = << "SolAtVertices" >>
       /\ ParseNat(lines[4]) = n
       /\ lines[5] = << "1", " ", "1" >>
       /\ [i \in 1..n |-> ParseFloat(lines[5 + i])] = sargs.signed_distances
       /\ lines[Len(lines)] = EndLine

C15_Witness ==
  /\ entry = "sol"
  /\ spc = "done"
  /\ Len(sargs.signed_distances) = 2
  /\ sargs.signed_distances[1] = -5
  /\ sargs.signed_distances[2] = 1234
  /\ Len(sfile[1]) = 8

\* C16: at every point of a call the directive path holds either the
\* complete directive of the field or what it held before the call.
C16_AllOrNothing ==
  entry = "sol" =>
    \/ sfile = sold
    \/ sfile = << Directive(sargs.signed_distances) >>

\* The boundary vertices of a mesh, in order.
RECURSIVE BoundaryOf(_)
BoundaryOf(points) ==
  IF points = << >> THEN << >>
  ELSE (IF points[1].boundary THEN << points[1] >> ELSE << >>)
       \o BoundaryOf(Tail(points))

\* C19: the value a call returns is the root mean square of the signed
\* distances at the m boundary vertices of the mesh and of no other vertex:
\* for m > 0 it is a number, and its square sumsq / count equals
\* (d_1^2 + ... + d_m^2) / m.
C19_RmsOverBoundary ==
  \A k \in 1..Len(cres) :
    LET ds == ImplicitDistance(BoundaryOf(cmesh))
        m == Len(ds)
    IN m > 0 =>
         /\ cres[k].count > 0
         /\ cres[k].sumsq * m = SumSquares(ds) * cres[k].count

\* C20: every call on the same two files returns the same value, the one
\* the mesh file decides, whatever side file was at the .vtu path before
\* the first call and after a call has written it.
C20_Deterministic ==
  \A i \in 1..Len(cres) :
    /\ cres[i] = Rmse(ImplicitDistance(cmesh))
    /\ \A j \in 1..Len(cres) : cres[i] = cres[j]

C20_Witness ==
  /\ entry = "compare"
  /\ Len(cres) = 2
  /\ cvtu0 = << EarlierVtu >>
  /\ cvtu # cvtu0
  /\ Len(cmesh) = 2
  /\ Rmse(ImplicitDistance(cmesh)) # Rmse(ImplicitDistance(EarlierVtu.points))

\* The Adaptation Parameters constraints, values in hundredths.
ParamsValid(t) ==
  /\ t.hmin <= t.hmax
  /\ t.hgrad > 100
  /\ t.hausd > 0

\* C22: the parameters bound at the adaptation call of every trial, and
\* both corners of the search box handed to minimize, satisfy
\* hmin <= hmax, hgrad > 1 and hausd > 0.
C22_TrialParamsValid ==
  (entry = "optimize" /\ opc \in {"adapt", "raised"} /\ evals # << >>) =>
    /\ ParamsValid(Tuple(args.hausd, args.hgrad, args.hmin, args.hmax))
    /\ ParamsValid(SearchBounds(opt.bounds).lower)
    /\ ParamsValid(SearchBounds(opt.bounds).upper)

\* C23: within one call no two iterations write the directive to the same
\* path, and the directive handed to the engine in iteration n is the one
\* written in iteration n.
C23_OneDirectivePerIteration ==
  entry = "adapt" =>
    /\ \A i, j \in 1..Len(sols) : i # j => sols[i] # sols[j]
    /\ \A k \in 1..Len(calls) : calls[k].sol = sols[k]

\* C25: in a call without an output name the engine's output path of
\* iteration 0 differs from its input path.
C25_DefaultOutputIsNotInput ==
  (entry = "adapt" /\ args.output_file = None /\ calls # << >>) =>
    calls[1].out # calls[1].in

\* The values the value lines of a directive state, in order.
ReadValues(lines) ==
  [i \in 1..(Len(lines) - 6) |-> ParseFloat(lines[5 + i])]

\* C24: the directive an adaptation iteration writes holds the values of the
\* signed-distance field of that iteration, one per vertex in vertex order,
\* with their signs unchanged.
C24_DirectiveHoldsField ==
  (entry = "sol" /\ smesh # << >> /\ spc = "done") =>
    ReadValues(sfile[1]) = smesh[1]

\* Line i of a file belongs to a section of the keyword: a line k <= i
\* starts with the keyword (white space around a line's text apart) and no
\* line strictly between k and i is blank (empty or white space only).  The
\* section of line k runs up to and including the first blank line after k.
InSection(lines, i, keyword) ==
  \E k \in 1..i :
    /\ StartsWith(lines[k], keyword)
    /\ \A j \in (k + 1)..(i - 1) : Strip(lines[j]) # << >>

\* The lines of a file outside the keyword's sections, in order.
RECURSIVE KeptFrom(_, _, _)
KeptFrom(lines, i, keyword) ==
  IF i > Len(lines) THEN << >>
  ELSE (IF InSection(lines, i, keyword) THEN << >> ELSE << lines[i] >>)
       \o KeptFrom(lines, i + 1, keyword)

\* C30: a call leaves in the file exactly the lines outside the keyword's
\* sections, unchanged and in their order, and a second call with the same
\* keyword leaves the file as the first call left it.
C30_TrimRemovesSections ==
  entry = "trim" =>
    /\ Len(thist) >= 2 => thist[2] = KeptFrom(thist[1], 1, "RequiredEdges")
    /\ Len(thist) >= 3 => thist[3] = thist[2]

C30_Witness ==
  /\ entry = "trim"
  /\ Len(thist) = 3
  /\ thist[1] = << << "RequiredEdges" >>, << "7", " ", "RequiredEdges" >>,
                   << " " >>, << "End" >> >>
  /\ thist[2] = << << "End" >> >>

\* C29: after a clear_output("all") in which no removal raised, the output
\* directory has no entries.
C29_ClearAllEmptiesDirectory ==
  (entry = "clear" /\ outlast = "all" /\ outerr = {}) => outdir = {}

\* C21: a boundary-condition set handed to the viewer together with a mesh
\* was derived from that mesh: after the mesh has changed no set of an
\* earlier mesh is offered with it.
C21_SetsFollowTheMesh ==
  \A o \in aoffers : o.meshrun # -1 => o.setrun = o.meshrun

\* C26: when a run reports success the path it returns names a file a stage
\* of that run wrote.
C26_ReturnedMeshWasWritten ==
  (entry = "app" /\ aret.pair /\ ~Failed(aret.result) /\ aret.path # None) =>
    aret.path \in awritten

\* C27: whatever stage fails, and on success, the value returned is a pair
\* (result, mesh path or None), so page_meshing's unpacking does not fail.
C27_ReturnsPair ==
  (entry = "app" /\ apc = "unpack") => aret.pair

StageOrder == << "qa", "align", "initial", "adapt" >>

\* C28: the stages of a run start in the order quality assurance,
\* alignment, initial meshing, adaptation; every stage before the last one
\* started has exited with 0.
C28_StagesInOrder ==
  entry = "app" =>
    /\ Len(astages) <= Len(StageOrder)
    /\ \A k \in 1..Len(astages) :
         /\ astages[k].stage = StageOrder[k]
         /\ k < Len(astages) => astages[k].returncode = 0

C28_Witness ==
  /\ entry = "app"
  /\ apc = "idle"
  /\ aruns = 2
  /\ Len(astages) = 3
  /\ astages[3].returncode = 1
  /\ awritten = {qa_file, aligned_file}

====
